---- MODULE Spec2Model ----
(***************************************************************************)
(* Model of src/main.py: an AnalogWatchWithAlarm object, its Alarm list,   *)
(* and the Watch.run loop driving AnalogWatchWithAlarm.update.             *)
(*                                                                         *)
(* The wall clock is counted in units of 1/TicksPerSecond seconds since    *)
(* midnight; angles are counted in tenths of a degree.                     *)
(***************************************************************************)
EXTENDS Integers, Sequences, FiniteSets, TLC

VARIABLES
    pc,              \* position of the single thread: created, the steps of run(), stopped, raised
    alarms,          \* Alarm.alarms: list of (hour, minute, second) tuples
    lastOp,          \* the latest Alarm call made by the caller: op, arg, ret, list before it
    prevOp,          \* the Alarm call before lastOp
    clock,           \* wall clock, units since midnight
    update_interval, \* argument of run(), in units
    current_time,    \* local current_time of AnalogWatch.update: <<hour, minute, second>>
    angle,           \* Hand.angle of hour_hand, minute_hand, second_hand (tenths of a degree)
    exc,             \* exception that left run() ("none" while there is none)
    signal,          \* exception delivered during run() and the step it interrupted
    ticks,           \* loop iterations completed
    calls,           \* how often setup, update, screen.update and sleep were entered / left
    tickLog,         \* calls made by the current loop iteration, in order
    triggers         \* _trigger_alarm calls during the current wall-clock second

vars == <<pc, alarms, lastOp, prevOp, clock, update_interval, current_time, angle,
          exc, signal, ticks, calls, tickLog, triggers>>

-----------------------------------------------------------------------------
(* Bounds *)

MaxAlarms == 3
MaxTicks == 4
TicksPerSecond == 2

(* Inputs *)

AlarmInputs == {<<7, 0, 0>>, <<0, 0, 0>>, <<24, 0, 0>>}
CheckTimes == {<<7, 0, 0>>, <<7, 0, 1>>, <<0, 0, 0>>}
StartTimes == {<<6, 59, 59>>, <<23, 59, 59>>, <<15, 30, 45>>}
RunIntervals == -1 .. TicksPerSecond

-----------------------------------------------------------------------------
(* The clock source: datetime.now() and its hour, minute, second fields *)

DayUnits == 24 * 60 * 60 * TicksPerSecond

ToClock(t) == ((t[1] * 60 + t[2]) * 60 + t[3]) * TicksPerSecond

SecondOf(c) == c \div TicksPerSecond

Datetime(c) ==
    LET s == SecondOf(c)
    IN  <<s \div 3600, (s \div 60) % 60, s % 60>>

-----------------------------------------------------------------------------
(* Alarm *)

Contains(list, x) == \E i \in 1 .. Len(list) : list[i] = x

RECURSIVE RemoveFirst(_, _)
RemoveFirst(list, x) ==
    IF list = <<>> THEN <<>>
    ELSE IF Head(list) = x THEN Tail(list)
    ELSE <<Head(list)>> \o RemoveFirst(Tail(list), x)

add_alarm(list, a) == Append(list, a)

remove_alarm(list, a) ==
    IF Contains(list, a)
    THEN [alarms |-> RemoveFirst(list, a), ret |-> TRUE]
    ELSE [alarms |-> list, ret |-> FALSE]

check_alarms_ignoring_second(list, now) ==
    \E i \in 1 .. Len(list) : list[i][1] = now[1] /\ list[i][2] = now[2]

check_alarms(list, now) ==
    LET current_hms == <<now[1], now[2], now[3]>>
    IN  Contains(list, current_hms)

NoOp == [op |-> "none", arg |-> <<>>, ret |-> FALSE, before |-> <<>>]

-----------------------------------------------------------------------------
(* AnalogWatch.update: the angles, in tenths of a degree *)

second_angle(t) == t[3] * 60
minute_angle(t) == t[2] * 60 + t[3]
hour_angle(t) == (t[1] % 12) * 300 + t[2] * 5

Hands == {"hour_hand", "minute_hand", "second_hand"}

HandUpdate(h, a) == angle

-----------------------------------------------------------------------------
(* Watch.run *)

SetupPcs == {"setup"}
TryPcs == {"update", "hour_hand", "minute_hand", "second_hand", "alarm_check",
           "commit", "sleep"}
RunPcs == SetupPcs \cup TryPcs

TerminationSignals == {"KeyboardInterrupt", "Terminator"}
Exceptions == TerminationSignals \cup {"Error"}

NoSignal == [exc |-> "none", at |-> "none"]

CaughtKeyboardInterruptOnly(e, p) == p \in TryPcs /\ e = "KeyboardInterrupt"

Caught(e, p) == p \in TryPcs /\ e \in TerminationSignals

Init ==
    /\ pc = "created"
    /\ alarms = <<>>
    /\ lastOp = NoOp
    /\ prevOp = NoOp
    /\ clock \in {ToClock(t) : t \in StartTimes}
    /\ update_interval = TicksPerSecond
    /\ current_time = <<0, 0, 0>>
    /\ angle = [h \in Hands |-> 0]
    /\ exc = "none"
    /\ signal = NoSignal
    /\ ticks = 0
    /\ calls = [setup |-> 0, update |-> 0, updated |-> 0, commit |-> 0, sleep |-> 0]
    /\ tickLog = <<>>
    /\ triggers = 0

runVars == <<clock, update_interval, current_time, angle, exc, signal, ticks, calls,
             tickLog, triggers>>

AddAlarm(a) ==
    /\ pc = "created"
    /\ Len(alarms) < MaxAlarms
    /\ alarms' = add_alarm(alarms, a)
    /\ lastOp' = [op |-> "add", arg |-> a, ret |-> FALSE, before |-> alarms]
    /\ prevOp' = lastOp
    /\ UNCHANGED <<pc, runVars>>

RemoveAlarm(a) ==
    /\ pc = "created"
    /\ LET r == remove_alarm(alarms, a)
       IN  /\ alarms' = r.alarms
           /\ lastOp' = [op |-> "remove", arg |-> a, ret |-> r.ret, before |-> alarms]
    /\ prevOp' = lastOp
    /\ UNCHANGED <<pc, runVars>>

CheckAlarms(t) ==
    /\ pc = "created"
    /\ LET now == Datetime(ToClock(t))
       IN  lastOp' = [op |-> "check", arg |-> now, ret |-> check_alarms(alarms, now),
                      before |-> alarms]
    /\ prevOp' = lastOp
    /\ UNCHANGED <<pc, alarms, runVars>>

Run(interval) ==
    /\ pc = "created"
    /\ pc' = "setup"
    /\ update_interval' = interval
    /\ calls' = [calls EXCEPT !.setup = @ + 1]
    /\ lastOp' = NoOp
    /\ prevOp' = NoOp
    /\ UNCHANGED <<alarms, clock, current_time, angle, exc, signal, ticks, tickLog,
                   triggers>>

Setup ==
    /\ pc = "setup"
    /\ pc' = "update"
    /\ UNCHANGED <<alarms, lastOp, prevOp, runVars>>

AnalogUpdate ==
    /\ pc = "update"
    /\ ticks < MaxTicks
    /\ pc' = "hour_hand"
    /\ current_time' = Datetime(clock)
    /\ calls' = [calls EXCEPT !.update = @ + 1]
    /\ tickLog' = <<>>
    /\ UNCHANGED <<alarms, lastOp, prevOp, clock, update_interval, angle, exc, signal,
                   ticks, triggers>>

UpdateHand(h, a, next) ==
    /\ pc = h
    /\ pc' = next
    /\ angle' = HandUpdate(h, a)
    /\ tickLog' = Append(tickLog, h \o ".update")
    /\ UNCHANGED <<alarms, lastOp, prevOp, clock, update_interval, current_time, exc,
                   signal, ticks, calls, triggers>>

UpdateHourHand == UpdateHand("hour_hand", hour_angle(current_time), "minute_hand")

UpdateMinuteHand == UpdateHand("minute_hand", minute_angle(current_time), "second_hand")

UpdateSecondHandWithoutAlarmCheck ==
    UpdateHand("second_hand", second_angle(current_time), "commit")

UpdateSecondHand == UpdateHand("second_hand", second_angle(current_time), "alarm_check")

CheckAndTriggerAlarm ==
    /\ pc = "alarm_check"
    /\ pc' = "commit"
    /\ LET now == Datetime(clock)
       IN  IF check_alarms(alarms, now)
           THEN /\ triggers' = triggers + 1
                /\ tickLog' = tickLog \o <<"check_and_trigger_alarm", "_trigger_alarm">>
           ELSE /\ triggers' = triggers
                /\ tickLog' = Append(tickLog, "check_and_trigger_alarm")
    /\ calls' = [calls EXCEPT !.updated = @ + 1]
    /\ UNCHANGED <<alarms, lastOp, prevOp, clock, update_interval, current_time, angle,
                   exc, signal, ticks>>

CommitWithoutSleep ==
    /\ pc = "commit"
    /\ pc' = "update"
    /\ calls' = [calls EXCEPT !.commit = @ + 1]
    /\ tickLog' = Append(tickLog, "screen.update")
    /\ UNCHANGED <<alarms, lastOp, prevOp, clock, update_interval, current_time, angle,
                   exc, signal, ticks, triggers>>

Commit ==
    /\ pc = "commit"
    /\ pc' = "sleep"
    /\ calls' = [calls EXCEPT !.commit = @ + 1]
    /\ tickLog' = Append(tickLog, "screen.update")
    /\ UNCHANGED <<alarms, lastOp, prevOp, clock, update_interval, current_time, angle,
                   exc, signal, ticks, triggers>>

Sleep ==
    /\ pc = "sleep"
    /\ tickLog' = Append(tickLog, "time.sleep")
    /\ IF update_interval < 0
       THEN /\ pc' = "raised"
            /\ exc' = "ValueError"
            /\ UNCHANGED <<clock, ticks, calls, triggers>>
       ELSE /\ pc' = "update"
            /\ clock' = (clock + update_interval) % DayUnits
            /\ triggers' = IF SecondOf(clock') = SecondOf(clock) THEN triggers ELSE 0
            /\ ticks' = ticks + 1
            /\ calls' = [calls EXCEPT !.sleep = @ + 1]
            /\ exc' = exc
    /\ UNCHANGED <<alarms, lastOp, prevOp, update_interval, current_time, angle, signal>>

Raise(e) ==
    /\ pc \in RunPcs
    /\ signal' = [exc |-> e, at |-> pc]
    /\ IF Caught(e, pc)
       THEN /\ pc' = "stopped"
            /\ exc' = exc
       ELSE /\ pc' = "raised"
            /\ exc' = e
    /\ UNCHANGED <<alarms, lastOp, prevOp, clock, update_interval, current_time, angle,
                   ticks, calls, tickLog, triggers>>

Next ==
    \/ \E a \in AlarmInputs : AddAlarm(a)
    \/ \E a \in AlarmInputs : RemoveAlarm(a)
    \/ \E t \in CheckTimes : CheckAlarms(t)
    \/ \E i \in RunIntervals : Run(i)
    \/ Setup
    \/ AnalogUpdate
    \/ UpdateHourHand
    \/ UpdateMinuteHand
    \/ UpdateSecondHand
    \/ CheckAndTriggerAlarm
    \/ Commit
    \/ Sleep
    \/ \E e \in Exceptions : Raise(e)

Spec == Init /\ [][Next]_vars

-----------------------------------------------------------------------------
(* Helpers of the properties *)

Elements(list) == {list[i] : i \in DOMAIN list}

InRange(a) == a[1] \in 0 .. 23 /\ a[2] \in 0 .. 59 /\ a[3] \in 0 .. 59

IsPrefix(s, t) == Len(s) <= Len(t) /\ \A i \in 1 .. Len(s) : s[i] = t[i]

Before(log, e, f) ==
    \E i \in DOMAIN log : \E j \in DOMAIN log : i < j /\ log[i] = e /\ log[j] = f

UpdatePcs == {"update", "hour_hand", "minute_hand", "second_hand", "alarm_check"}

IsUpdateWork(e) ==
    e \in {"hour_hand.update", "minute_hand.update", "second_hand.update",
           "check_and_trigger_alarm"}

UpdateWork == SelectSeq(tickLog, IsUpdateWork)

ExpectedUpdateWork ==
    <<"hour_hand.update", "minute_hand.update", "second_hand.update",
      "check_and_trigger_alarm">>

-----------------------------------------------------------------------------
(* C1: in run, with an update interval in (0, 1] seconds, a wall-clock     *)
(* second that equals an alarm triple has had _trigger_alarm invoked       *)
(* exactly once when a tick of that second has finished its alarm check.   *)
C1_ExactlyOncePerSecond ==
    (/\ pc \in {"commit", "sleep"}
     /\ update_interval \in 1 .. TicksPerSecond
     /\ Datetime(clock) \in Elements(alarms))
        => triggers = 1

(* C2: every triple occurs at most once in the alarm list, so a            *)
(* check_alarms at a triple right after a remove_alarm of it that returned *)
(* True returns False.                                                     *)
C2_TripleUnique ==
    /\ \A i \in DOMAIN alarms : \A j \in DOMAIN alarms : alarms[i] = alarms[j] => i = j
    /\ (/\ prevOp.op = "remove" /\ prevOp.ret
        /\ lastOp.op = "check" /\ lastOp.arg = prevOp.arg)
           => ~lastOp.ret

(* C3: remove_alarm returns True exactly when the triple is in the list at *)
(* the call, leaves the list unchanged when it is absent, and returns      *)
(* False when it follows a successful remove_alarm of the same triple.     *)
C3_RemoveReportsPresence ==
    lastOp.op = "remove" =>
        /\ lastOp.ret <=> lastOp.arg \in Elements(lastOp.before)
        /\ ~lastOp.ret => alarms = lastOp.before
        /\ (prevOp.op = "remove" /\ prevOp.ret /\ prevOp.arg = lastOp.arg) => ~lastOp.ret

(* C4: check_alarms(now) returns True iff (now.hour, now.minute,           *)
(* now.second) is in the alarm list, leaves the list unchanged, and is     *)
(* never made True by a triple with an out-of-range component; the same    *)
(* holds of the check made by each tick of run.                            *)
C4_CheckIsMembership ==
    /\ lastOp.op = "check" =>
          /\ lastOp.ret <=> lastOp.arg \in Elements(alarms)
          /\ alarms = lastOp.before
          /\ lastOp.ret => \E a \in Elements(alarms) : a = lastOp.arg /\ InRange(a)
    /\ pc = "commit" =>
          ("_trigger_alarm" \in Elements(tickLog)
              <=> \E a \in Elements(alarms) : a = Datetime(clock) /\ InRange(a))

C4_Witness ==
    /\ lastOp.op = "check" /\ lastOp.ret
    /\ prevOp.op = "remove" /\ prevOp.ret
    /\ \E a \in Elements(alarms) : ~InRange(a)

(* C5: setup() is called exactly once and before the first update(); the   *)
(* k-th commit follows the k-th update(), the k-th sleep follows the k-th  *)
(* commit, the next update() follows that sleep; and no update() starts    *)
(* once run has stopped.                                                   *)
C5_Order ==
    /\ pc # "created" => calls.setup = 1
    /\ pc \in {"created", "setup"} => calls.update = 0
    /\ calls.updated <= calls.update /\ calls.update <= calls.updated + 1
    /\ calls.commit <= calls.updated /\ calls.updated <= calls.commit + 1
    /\ calls.sleep <= calls.commit /\ calls.commit <= calls.sleep + 1
    /\ calls.update <= calls.sleep + 1
    /\ pc = "commit" => calls.updated = calls.commit + 1
    /\ pc = "sleep" => calls.commit = calls.sleep + 1

C5_RunLoopOrder ==
    /\ []C5_Order
    /\ [][(pc \in {"stopped", "raised"}) => UNCHANGED calls]_vars

C5_Witness == pc = "stopped" /\ calls.sleep >= 2 /\ calls.update = calls.sleep + 1

(* C6 as claimed: a termination signal delivered at any point of run()     *)
(* makes run() return normally in Stopped.                                 *)
C6_SignalAnywhereStops ==
    signal.exc \in TerminationSignals => pc = "stopped" /\ exc = "none"

(* C6 as amended: a termination signal delivered during update, frame      *)
(* commit or sleep makes run() return normally in Stopped; one delivered   *)
(* during setup() leaves run() as that exception.                          *)
C6_SignalInLoopStops ==
    signal.exc \in TerminationSignals =>
        IF signal.at \in {"update", "hour_hand", "minute_hand", "second_hand",
                          "alarm_check", "commit", "sleep"}
        THEN pc = "stopped" /\ exc = "none"
        ELSE signal.at = "setup" /\ pc = "raised" /\ exc = signal.exc

C6_Witness == signal.exc = "Terminator" /\ signal.at = "sleep" /\ pc = "stopped"

(* C7: run with update_interval <= 0 performs no update() and no frame     *)
(* commit.                                                                 *)
C7_NonPositiveIntervalRejected ==
    (pc # "created" /\ update_interval <= 0) => calls.update = 0 /\ calls.commit = 0

(* C8: each AnalogWatchWithAlarm.update() performs the hour, minute and    *)
(* second hand updates once each and then the alarm check once, the alarm  *)
(* check after the three hand updates.                                     *)
C8_AnalogUpdateThenAlarmCheck ==
    pc \in RunPcs =>
        /\ IsPrefix(UpdateWork, ExpectedUpdateWork)
        /\ pc \in {"commit", "sleep"} => UpdateWork = ExpectedUpdateWork
        /\ pc = "alarm_check" => Len(UpdateWork) = 3

C8_Witness == pc = "commit" /\ "_trigger_alarm" \in Elements(tickLog) /\ ticks >= 1

(* C9: after a completed AnalogWatch.update() at (hour, minute, second)    *)
(* the Hand angle fields are (hour mod 12)*30 + minute*0.5, minute*6 +     *)
(* second*0.1 and second*6 degrees, each in [0, 360).                      *)
C9_HandAngles ==
    pc \in {"alarm_check", "commit", "sleep"} =>
        /\ angle["hour_hand"] = (current_time[1] % 12) * 300 + current_time[2] * 5
        /\ angle["minute_hand"] = current_time[2] * 60 + current_time[3]
        /\ angle["second_hand"] = current_time[3] * 60
        /\ \A h \in Hands : angle[h] \in 0 .. 3599

(* C10: a frame commit follows the update and draw of all three hands by   *)
(* the same tick; a tick whose update() raises performs no commit; an      *)
(* exception that is no termination signal leaves run.                     *)
C10_FullFrameBeforeCommit ==
    /\ "screen.update" \in Elements(tickLog) =>
          \A h \in Hands :
              /\ Before(tickLog, h \o ".update", "screen.update")
              /\ Before(tickLog, h \o ".draw", "screen.update")
    /\ (signal.exc # "none" /\ signal.at \in UpdatePcs) =>
          "screen.update" \notin Elements(tickLog)
    /\ signal.exc \in Exceptions \ TerminationSignals =>
          pc = "raised" /\ exc = signal.exc

====
